---- MODULE Spec2Model ----
(***************************************************************************)
(* A model of the C.A.R.E. API server (src/api_server.py) and its research *)
(* fetcher (src/src/data_processing/research_fetcher.py).                  *)
(*                                                                         *)
(* Python strings are sequences of one-character strings, so that the      *)
(* string operations of the code (startswith, split, strip, slicing) are   *)
(* computed and not assumed.  The filesystem is one function from absolute *)
(* paths to file contents, shared by every request.  Each request handler  *)
(* runs on a worker; a step of a handler is the code between two blocking  *)
(* calls (HTTP request, sleep, file open/remove), and the steps of two     *)
(* workers interleave.                                                     *)
(***************************************************************************)
EXTENDS Integers, Sequences, FiniteSets, TLC

VARIABLES
    fs,       \* the filesystem: absolute path -> file content (files that exist)
    now,      \* int(time.time()): the wall clock in whole seconds
    req,      \* worker -> the request it is handling (or handled last)
    budget,   \* number of requests that are still to arrive
    handed,   \* the (plan, plan_file_path) pairs rendered into pages so far
    call      \* a call of one function of the modules, made on its own

vars == <<fs, now, req, budget, handed, call>>

----
\* Bounds of the model.

\* Number of worker processes serving requests concurrently.
NumWorkers == 2
\* Number of requests in one behaviour of the artifact broker.
MaxRequests == 3
\* Number of plan requests in one behaviour of the research fetcher.
MaxPlanRequests == 2
\* Last value of the clock.
MaxTime == 2
\* Longest list of locations given to cleanup_papers on its own.
MaxFiles == 2
\* Longest of the strings over "*", ":", " " and "F" given to
\* parse_treatment_plan.
MaxText == 6
\* Most lines of a patient record given to extract_conditions.
MaxLines == 3
\* Most characters of a patient record given to extract_conditions.
MaxRecord == 80
\* Plan requests made where every search request is answered in the end.
MaxAnsweredRequests == 1

Workers == 1..NumWorkers

----
\* Python strings.

None == [t |-> "None", v |-> <<>>]

\* str.startswith(prefix)
StartsWith(s, prefix) ==
    /\ Len(prefix) <= Len(s)
    /\ SubSeq(s, 1, Len(prefix)) = prefix

\* s[i:] contains sub at position i
MatchAt(s, i, sub) ==
    /\ i + Len(sub) - 1 <= Len(s)
    /\ SubSeq(s, i, i + Len(sub) - 1) = sub

\* sub in s
Contains(s, sub) == \E i \in 1..(Len(s) + 1) : MatchAt(s, i, sub)

\* str.split(sep) for a non-empty separator: the list of the pieces
\* (the pieces from index i on: up to the leftmost sep at or after i, then
\* those after that sep)
RECURSIVE SplitFrom(_, _, _)
SplitFrom(s, sep, i) ==
    LET found == {j \in i..Len(s) : MatchAt(s, j, sep)}
    IN  IF found = {} THEN <<SubSeq(s, i, Len(s))>>
        ELSE LET j == CHOOSE x \in found : \A y \in found : x <= y
             IN  <<SubSeq(s, i, j - 1)>> \o SplitFrom(s, sep, j + Len(sep))

Split(s, sep) == SplitFrom(s, sep, 1)

\* sep.join(list)
RECURSIVE Join(_, _)
Join(sep, list) ==
    IF list = <<>> THEN <<>>
    ELSE IF Len(list) = 1 THEN list[1]
    ELSE list[1] \o sep \o Join(sep, Tail(list))

Digit == <<"0", "1", "2", "3", "4", "5", "6", "7", "8", "9">>

\* str(n) for an integer n >= 0
RECURSIVE IntToStr(_)
IntToStr(n) ==
    IF n < 10 THEN <<Digit[n + 1]>>
    ELSE IntToStr(n \div 10) \o <<Digit[(n % 10) + 1]>>

----
\* Paths (os.path on POSIX).

Sep == <<"/">>

\* os.path.join(a, b)
PathJoin(a, b) ==
    IF StartsWith(b, Sep) THEN b
    ELSE IF a = <<>> \/ a[Len(a)] = "/" THEN a \o b
    ELSE a \o Sep \o b

\* the component stack of os.path.normpath for an absolute path
RECURSIVE NormComps(_, _)
NormComps(comps, stack) ==
    IF comps = <<>> THEN stack
    ELSE LET c == Head(comps) IN
         IF c = <<>> \/ c = <<".">> THEN NormComps(Tail(comps), stack)
         ELSE IF c = <<".", ".">>
              THEN NormComps(Tail(comps),
                             IF stack = <<>> THEN stack
                             ELSE SubSeq(stack, 1, Len(stack) - 1))
              ELSE NormComps(Tail(comps), Append(stack, c))

\* os.path.dirname(os.path.abspath(__file__)) of api_server.py
SCRIPT_DIR == <<"/","a","p","p">>
ROOT_DIR == SCRIPT_DIR
\* the working directory of the server process
Cwd == ROOT_DIR

\* os.path.abspath(path): normpath(join(os.getcwd(), path))
NormPath(path) ==
    LET full == IF StartsWith(path, Sep) THEN path ELSE PathJoin(Cwd, path)
        comps == NormComps(Split(full, Sep), <<>>)
    IN  IF comps = <<>> THEN Sep ELSE Sep \o Join(Sep, comps)

PATIENT_TEXT_PATH ==
    PathJoin(ROOT_DIR, <<"D","a","t","a","/","p","r","o","c","e","s","s","e","d","/","p","a","t","i","e","n","t","_","t","e","x","t">>)
RESEARCH_PAPER_PATH ==
    PathJoin(ROOT_DIR, <<"D","a","t","a","/","p","r","o","c","e","s","s","e","d","/","r","e","s","e","a","r","c","h">>)
TMP_DIR == PathJoin(ROOT_DIR, <<"t","m","p">>)


----
\* More string operations.

Whitespace == {" ", "\t", "\n", "\r", "\f"}
Upper == {"A","B","C","D","E","F","G","H","I","J","K","L","M",
          "N","O","P","Q","R","S","T","U","V","W","X","Y","Z"}
Lower == {"a","b","c","d","e","f","g","h","i","j","k","l","m",
          "n","o","p","q","r","s","t","u","v","w","x","y","z"}
Digits == {"0","1","2","3","4","5","6","7","8","9"}

\* s.lstrip(chars), s.rstrip(chars), s.strip(chars)
RECURSIVE LStripChars(_, _)
LStripChars(s, chars) ==
    IF s # <<>> /\ Head(s) \in chars THEN LStripChars(Tail(s), chars) ELSE s

RECURSIVE RStripChars(_, _)
RStripChars(s, chars) ==
    IF s # <<>> /\ s[Len(s)] \in chars
    THEN RStripChars(SubSeq(s, 1, Len(s) - 1), chars) ELSE s

StripChars(s, chars) == RStripChars(LStripChars(s, chars), chars)

\* s.strip()
Strip(s) == StripChars(s, Whitespace)

\* s.replace(old, new) for a non-empty old
RECURSIVE ReplaceFrom(_, _, _, _)
ReplaceFrom(s, old, new, i) ==
    IF i > Len(s) THEN <<>>
    ELSE IF MatchAt(s, i, old)
         THEN new \o ReplaceFrom(s, old, new, i + Len(old))
         ELSE <<s[i]>> \o ReplaceFrom(s, old, new, i + 1)

Replace(s, old, new) == ReplaceFrom(s, old, new, 1)

\* re.split(r'[chars]', s)
RECURSIVE SplitCharsFrom(_, _, _, _)
SplitCharsFrom(s, chars, i, piece) ==
    IF i > Len(s) THEN <<piece>>
    ELSE IF s[i] \in chars
         THEN <<piece>> \o SplitCharsFrom(s, chars, i + 1, <<>>)
         ELSE SplitCharsFrom(s, chars, i + 1, Append(piece, s[i]))

SplitChars(s, chars) == SplitCharsFrom(s, chars, 1, <<>>)

\* the ASCII characters (without quote, backslash and backtick) in code-point order
Ascii ==
    << "\t", "\n", "\f", "\r", " ", "!", "#", "$", "%", "&", "'", "(", ")", "*", "+",
       ",", "-", ".", "/", "0", "1", "2", "3", "4", "5", "6", "7", "8", "9", ":", ";",
       "<", "=", ">", "?", "@", "A", "B", "C", "D", "E", "F", "G", "H", "I", "J", "K",
       "L", "M", "N", "O", "P", "Q", "R", "S", "T", "U", "V", "W", "X", "Y", "Z", "[",
       "]", "^", "_", "a", "b", "c", "d", "e", "f", "g", "h", "i", "j", "k",
       "l", "m", "n", "o", "p", "q", "r", "s", "t", "u", "v", "w", "x", "y", "z", "{",
       "|", "}", "~" >>

\* ord(c), up to an order-preserving renumbering
CharCode(c) == CHOOSE i \in DOMAIN Ascii : Ascii[i] = c

\* the elements of a sequence, as a set
Range(seq) == {seq[i] : i \in DOMAIN seq}

\* A list taken as it is, neither deduplicated nor sorted.
AsExtracted(list) == list

\* sorted(list(set(list))) for a list of strings: ascending, no duplicates
RECURSIVE StrLess(_, _)
StrLess(a, b) ==
    IF b = <<>> THEN FALSE
    ELSE IF a = <<>> THEN TRUE
    ELSE IF Head(a) = Head(b) THEN StrLess(Tail(a), Tail(b))
    ELSE CharCode(Head(a)) < CharCode(Head(b))

RECURSIVE SortedOfSet(_)
SortedOfSet(S) ==
    IF S = {} THEN <<>>
    ELSE LET m == CHOOSE x \in S : \A y \in S \ {x} : StrLess(x, y)
         IN  <<m>> \o SortedOfSet(S \ {m})

SortedUnique(list) == SortedOfSet(Range(list))

----
\* Python values: a tag and a payload.  A str carries its characters, a
\* list, tuple or set its items, a dict its (key, value) pairs in insertion
\* order, an int its value.

PyStr(chars) == [t |-> "str", v |-> chars]
PyInt(n) == [t |-> "int", v |-> <<n>>]
PyList(items) == [t |-> "list", v |-> items]
PyTuple(items) == [t |-> "tuple", v |-> items]
PySet(items) == [t |-> "set", v |-> items]
PyDict(pairs) == [t |-> "dict", v |-> pairs]

\* bool(value) for a str, list, tuple, set or dict: whether it is non-empty
Truthy(x) == x.v # <<>>

\* Whether json.dump accepts the value (a set is not JSON serializable, and
\* a dict key must be a str, an int or None).
RECURSIVE JsonSerializable(_)
JsonSerializable(x) ==
    CASE x.t \in {"str", "int", "None"} -> TRUE
      [] x.t \in {"list", "tuple"} ->
            \A i \in DOMAIN x.v : JsonSerializable(x.v[i])
      [] x.t = "dict" ->
            \A i \in DOMAIN x.v :
                /\ x.v[i][1].t \in {"str", "int", "None"}
                /\ JsonSerializable(x.v[i][2])
      [] OTHER -> FALSE

\* The key json.dump writes for a dict key.
JsonKey(k) ==
    CASE k.t = "str" -> k
      [] k.t = "int" -> PyStr(IntToStr(k.v[1]))
      [] OTHER -> PyStr(<<"n","u","l","l">>)

\* json.load(json.dump(x)): the value read back from the document written
\* for a serializable x.  Tuples come back as lists, dict keys as strings.
RECURSIVE JsonRoundTrip(_)
JsonRoundTrip(x) ==
    CASE x.t \in {"str", "int", "None"} -> x
      [] x.t \in {"list", "tuple"} ->
            PyList([i \in DOMAIN x.v |-> JsonRoundTrip(x.v[i])])
      [] x.t = "dict" ->
            PyDict([i \in DOMAIN x.v |->
                       <<JsonKey(x.v[i][1]), JsonRoundTrip(x.v[i][2])>>])
      [] OTHER -> x

----
\* File contents.

\* a text file (patient record, research document)
TextFile(text) == [kind |-> "text", complete |-> TRUE, text |-> text, doc |-> None]
\* a file json.dump wrote completely: it holds the document of a value
JsonFile(value) ==
    [kind |-> "json", complete |-> TRUE, text |-> <<>>, doc |-> JsonRoundTrip(value)]
\* a file opened with mode "w" that json.dump has not (or not fully) written
TruncatedFile == [kind |-> "json", complete |-> FALSE, text |-> <<>>, doc |-> None]

----
\* Python dictionaries and repr.

\* d.get(key, default), key a string of characters
RECURSIVE PairsGet(_, _, _)
PairsGet(pairs, key, default) ==
    IF pairs = <<>> THEN default
    ELSE LET last == pairs[Len(pairs)] IN
         IF last[1] = PyStr(key) THEN last[2]
         ELSE PairsGet(SubSeq(pairs, 1, Len(pairs) - 1), key, default)

DictGet(d, key, default) == PairsGet(d.v, key, default)

\* repr(value): the Python literal that denotes the value (strings without
\* quotes or backslashes)
RECURSIVE PyRepr(_)
PyRepr(x) ==
    LET items == [i \in DOMAIN x.v |-> PyRepr(x.v[i])]
        pairs == [i \in DOMAIN x.v |->
                     PyRepr(x.v[i][1]) \o <<":", " ">> \o PyRepr(x.v[i][2])]
    IN  CASE x.t = "str" -> <<"'">> \o x.v \o <<"'">>
          [] x.t = "int" -> IntToStr(x.v[1])
          [] x.t = "None" -> <<"N","o","n","e">>
          [] x.t = "list" -> <<"[">> \o Join(<<",", " ">>, items) \o <<"]">>
          [] x.t = "tuple" ->
                IF Len(items) = 1 THEN <<"(">> \o items[1] \o <<",", ")">>
                ELSE <<"(">> \o Join(<<",", " ">>, items) \o <<")">>
          [] x.t = "set" -> <<"{">> \o Join(<<",", " ">>, items) \o <<"}">>
          [] x.t = "dict" -> <<"{">> \o Join(<<",", " ">>, pairs) \o <<"}">>

----
\* research_fetcher.extract_conditions

\* the position after the run of lower-case letters that starts at i
RECURSIVE LowerRunEnd(_, _)
LowerRunEnd(s, i) ==
    IF i <= Len(s) /\ s[i] \in Lower THEN LowerRunEnd(s, i + 1) ELSE i

\* whether \n\n[A-Z][a-z]+: matches at position i
HeadingAt(s, i) ==
    /\ MatchAt(s, i, <<"\n", "\n">>)
    /\ i + 2 <= Len(s)
    /\ s[i + 2] \in Upper
    /\ LET j == LowerRunEnd(s, i + 3)
       IN  j > i + 3 /\ j <= Len(s) /\ s[j] = ":"

\* whether $ matches at position i: at the end, or before a final newline
DollarAt(s, i) == i = Len(s) + 1 \/ (i = Len(s) /\ s[i] = "\n")

ConditionsLabel == <<"C","o","n","d","i","t","i","o","n","s",":">>

\* match.group(1) of Conditions:(.*?)(?:\n\n[A-Z][a-z]+:|$) with re.DOTALL,
\* or <<"no match">>
ConditionsBlock(patient_info) ==
    LET starts == {k \in 1..Len(patient_info) :
                      MatchAt(patient_info, k, ConditionsLabel)}
    IN  IF starts = {} THEN <<"no match">>
        ELSE LET k == CHOOSE x \in starts : \A y \in starts : x <= y
                 b == k + Len(ConditionsLabel)
                 ends == {i \in b..(Len(patient_info) + 1) :
                             HeadingAt(patient_info, i) \/ DollarAt(patient_info, i)}
                 e == CHOOSE x \in ends : \A y \in ends : x <= y
             IN  SubSeq(patient_info, b, e - 1)

DisorderTag == <<"(","d","i","s","o","r","d","e","r",")">>

\* the cleaned condition of one fragment
CleanCondition(item) ==
    Strip(StripChars(Replace(item, DisorderTag, <<>>), {"-", " "}))

RECURSIVE CollectConditions(_)
CollectConditions(items) ==
    IF items = <<>> THEN <<>>
    ELSE LET item == Head(items)
             rest == CollectConditions(Tail(items))
         IN  IF Contains(item, DisorderTag) /\ CleanCondition(item) # <<>>
             THEN <<CleanCondition(item)>> \o rest
             ELSE rest

extract_conditions(patient_info) ==
    LET block == ConditionsBlock(patient_info)
    IN  IF block = <<"no match">> THEN <<>>
        ELSE CollectConditions(SplitChars(block, {"\n", ";"}))

----
\* api_server.parse_treatment_plan

\* The values whose literals the RAG service is taken to answer with.
Rest == <<"R","e","s","t">>
Flu == <<"F","l","u">>
KeyCondition == <<"c","o","n","d","i","t","i","o","n">>
KeyDetails == <<"d","e","t","a","i","l","s">>

\* a {condition, details} record
Entry(condition, details) ==
    PyDict(<< <<PyStr(KeyCondition), PyStr(condition)>>,
              <<PyStr(KeyDetails), details>> >>)

PlanOk == PyList(<<Entry(Flu, PyList(<<PyStr(Rest)>>))>>)
PlanTuple == PyList(<<Entry(Flu, PyTuple(<<PyStr(Rest)>>))>>)
PlanSet == PyList(<<Entry(Flu, PySet(<<PyStr(Rest)>>))>>)
PlanIntKey == PyList(<<PyDict(<< <<PyInt(1), PyStr(Flu)>> >>)>>)
PlanEmpty == PyList(<<>>)

\* [{}], a record without details, a condition with a colon in it, two
\* records, and the display {[]: 1} of a dict whose key is a list
PlanNoKeys == PyList(<<PyDict(<<>>)>>)
PlanNoDetails == PyList(<<Entry(Flu, PyList(<<>>))>>)
PlanColon == PyList(<<Entry(<<"F","l","u",":"," ","B">>, PyList(<<PyStr(Rest)>>))>>)
PlanTwo ==
    PyList(<<Entry(<<"G","o","u","t">>, PyList(<<PyStr(Rest), PyStr(<<"I","c","e">>)>>)),
             Entry(Flu, PyList(<<PyStr(Rest)>>))>>)
DictListKey == PyDict(<< <<PyList(<<>>), PyInt(1)>> >>)

LiteralValues ==
    {PlanOk, PlanTuple, PlanSet, PlanIntKey, PlanEmpty, PyStr(Flu),
     PlanNoKeys, PlanNoDetails, PlanColon, PlanTwo, DictListKey}

\* the literals of these values, computed once
LiteralTexts == [x \in LiteralValues |-> PyRepr(x)]

\* whether hash(x) is defined: not for a list, a set or a dict
RECURSIVE Hashable(_)
Hashable(x) ==
    CASE x.t \in {"list", "set", "dict"} -> FALSE
      [] x.t = "tuple" -> \A i \in DOMAIN x.v : Hashable(x.v[i])
      [] OTHER -> TRUE

\* whether the display of x can be evaluated: the keys of a dict and the
\* items of a set must be hashable
RECURSIVE Constructible(_)
Constructible(x) ==
    CASE x.t \in {"list", "tuple"} -> \A i \in DOMAIN x.v : Constructible(x.v[i])
      [] x.t = "set" ->
            \A i \in DOMAIN x.v : Hashable(x.v[i]) /\ Constructible(x.v[i])
      [] x.t = "dict" ->
            \A i \in DOMAIN x.v :
                /\ Hashable(x.v[i][1])
                /\ Constructible(x.v[i][1])
                /\ Constructible(x.v[i][2])
      [] OTHER -> TRUE

\* what ast.literal_eval raises: ValueError or SyntaxError for a text that
\* is no literal, TypeError for a display with an unhashable key or item
SyntaxError == [t |-> "SyntaxError", v |-> <<>>]
TypeError == [t |-> "TypeError", v |-> <<>>]

\* ast.literal_eval(text): the value the text is the literal of, or the
\* exception raised
ast_literal_eval(text) ==
    IF \E x \in LiteralValues : LiteralTexts[x] = text
    THEN LET x == CHOOSE y \in LiteralValues : LiteralTexts[y] = text
         IN  IF Constructible(x) THEN x ELSE TypeError
    ELSE SyntaxError

\* an exception leaves the function called
Raised(exception) == [t |-> "raise", v |-> <<exception.t>>]

NoPlanMarker == <<"N","o"," ","p","l","a","n"," ","w","a","s"," ","g","e","n","e","r","a","t","e","d">>
FailedMarker == <<"F","a","i","l","e","d"," ","t","o"," ","g","e","n","e","r","a","t","e">>
Preamble == <<"P","r","e","l","i","m","i","n","a","r","y"," ","T","r","e","a","t","m","e","n","t"," ","P","l","a","n">>

\* [detail.strip() for detail in pieces if detail.strip()]
RECURSIVE NonEmptyStripped(_)
NonEmptyStripped(pieces) ==
    IF pieces = <<>> THEN <<>>
    ELSE IF Strip(Head(pieces)) # <<>>
         THEN <<PyStr(Strip(Head(pieces)))>> \o NonEmptyStripped(Tail(pieces))
         ELSE NonEmptyStripped(Tail(pieces))

\* A markdown parser that stops at the first heading it skips.
RECURSIVE MarkdownSectionsStopAtSkipped(_, _)
MarkdownSectionsStopAtSkipped(parts, i) ==
    IF ~(i < Len(parts)) THEN <<>>
    ELSE LET title == Replace(Strip(parts[i]), <<":">>, <<>>)
             details == NonEmptyStripped(Split(Strip(parts[i + 1]), <<"*">>))
         IN  IF Contains(title, Preamble) \/ title = <<>>
             THEN <<>>
             ELSE IF details # <<>>
                  THEN <<Entry(title, PyList(details))>>
                           \o MarkdownSectionsStopAtSkipped(parts, i + 2)
                  ELSE MarkdownSectionsStopAtSkipped(parts, i + 2)

\* the while loop of the markdown parser, from index i (1-based: the code's
\* i is one less)
RECURSIVE MarkdownSections(_, _)
MarkdownSections(parts, i) ==
    IF ~(i < Len(parts)) THEN <<>>
    ELSE LET title == Replace(Strip(parts[i]), <<":">>, <<>>)
             details == NonEmptyStripped(Split(Strip(parts[i + 1]), <<"*">>))
         IN  IF Contains(title, Preamble) \/ title = <<>>
             THEN MarkdownSections(parts, i + 2)
             ELSE IF details # <<>>
                  THEN <<Entry(title, PyList(details))>>
                           \o MarkdownSections(parts, i + 2)
                  ELSE MarkdownSections(parts, i + 2)

\* except (ValueError, SyntaxError): whether what literal_eval ended with
\* stays inside parse_treatment_plan
ParseCaught(parsed_data) == parsed_data.t # "TypeError"

parse_treatment_plan(plan_text) ==
    IF Contains(plan_text, NoPlanMarker) \/ Contains(plan_text, FailedMarker)
    THEN PyList(<<>>)
    ELSE LET parsed_data == ast_literal_eval(plan_text)
         IN  IF ~ParseCaught(parsed_data)
             THEN Raised(parsed_data)
             ELSE IF /\ parsed_data.t = "list"
                     /\ \A i \in DOMAIN parsed_data.v : parsed_data.v[i].t = "dict"
             THEN parsed_data
             ELSE PyList(MarkdownSections(Split(plan_text, <<"*", "*">>), 2))

----
\* research_fetcher._perform_search: the file of a paper

\* re.sub(r'[^\w\s-]', '', title).strip().replace(' ', '_')[:60]
WordChars == Upper \cup Lower \cup Digits \cup {"_"}

RECURSIVE KeepChars(_, _)
KeepChars(s, chars) ==
    IF s = <<>> THEN <<>>
    ELSE IF Head(s) \in chars THEN <<Head(s)>> \o KeepChars(Tail(s), chars)
    ELSE KeepChars(Tail(s), chars)

SlugLen == 60

SafeFilename(title) ==
    LET kept == KeepChars(title, WordChars \cup Whitespace \cup {"-"})
        name == Replace(Strip(kept), <<" ">>, <<"_">>)
    IN  SubSeq(name, 1, IF Len(name) < SlugLen THEN Len(name) ELSE SlugLen)

DotTxt == <<".","t","x","t">>
KeyTitle == <<"t","i","t","l","e">>
KeyAbstract == <<"a","b","s","t","r","a","c","t">>
Untitled == <<"U","n","t","i","t","l","e","d"," ","P","a","p","e","r">>

\* os.path.join(RESEARCH_PAPER_PATH, f"{safe_filename}.txt")
PaperFile(title) == PathJoin(RESEARCH_PAPER_PATH, SafeFilename(title) \o DotTxt)

\* the titles of the papers of the model, and their files computed once
PaperTitles == {<<"F","l","u"," ","c","a","r","e">>,
                <<"F","l","u",":"," ","c","a","r","e","?">>,
                <<"G","o","u","t">>}

PaperFiles == [title \in PaperTitles |-> PaperFile(title)]

PaperPath(title) ==
    IF title \in PaperTitles THEN PaperFiles[title] ELSE PaperFile(title)

\* f"Title: {title}\n\nAbstract: {abstract}"
PaperText(title, abstract) ==
    <<"T","i","t","l","e",":"," ">> \o title \o <<"\n","\n","A","b","s","t","r","a","c","t",":"," ">> \o abstract

----
\* The environment: patient records and the paths a client may post.

PatientIds == {<<"a">>, <<"b">>}

PatientFile(patient_id) == PathJoin(PATIENT_TEXT_PATH, patient_id \o DotTxt)

\* Patient records with no disorder line, and with disorder lines.
PlainText == [p \in PatientIds |->
    IF p = <<"a">> THEN <<"C","o","n","d","i","t","i","o","n","s",":","\n","C","o","u","g","h"," ","(","f","i","n","d","i","n","g",")","\n">> ELSE <<"N","a","m","e",":"," ","b">>]
DisorderText == [p \in PatientIds |->
    IF p = <<"a">> THEN <<"C","o","n","d","i","t","i","o","n","s",":","\n","F","l","u"," ","(","d","i","s","o","r","d","e","r",")","\n","\n","M","e","d","s",":"," ","x"," ","(","d","i","s","o","r","d","e","r",")">> ELSE <<"C","o","n","d","i","t","i","o","n","s",":","\n","-"," ","G","o","u","t"," ","(","d","i","s","o","r","d","e","r",")",";","F","l","u"," ","(","d","i","s","o","r","d","e","r",")","\n","G","o","u","t"," ","(","d","i","s","o","r","d","e","r",")","\n">>]

\* Files next to the temporary directory and elsewhere on the host.
SiblingFile == PathJoin(ROOT_DIR, <<"t","m","p","_","o","l","d","/","p",".","j","s","o","n">>)
OutsideFile == PathJoin(ROOT_DIR, <<"e","t","c","/","p",".","j","s","o","n">>)
\* Paths a client can type without having been given them.
TraversalPath == PathJoin(TMP_DIR, <<".",".","/","e","t","c","/","p",".","j","s","o","n">>)
MissingPath == PathJoin(TMP_DIR, <<"n","o","n","e",".","j","s","o","n">>)
SiblingMissingPath == PathJoin(ROOT_DIR, <<"t","m","p","_","o","l","d","/","q",".","j","s","o","n">>)
ForgedPaths ==
    {SiblingFile, OutsideFile, TraversalPath, MissingPath, SiblingMissingPath}

\* fetch_and_save_papers: sorted(list(set(extract_conditions(patient_info)))),
\* computed once for the patient records above
ConditionsTable ==
    [text \in Range(PlainText) \cup Range(DisorderText) |->
        SortedUnique(extract_conditions(text))]

UniqueConditions(patient_info) ==
    IF patient_info \in DOMAIN ConditionsTable
    THEN ConditionsTable[patient_info]
    ELSE SortedUnique(extract_conditions(patient_info))

----
\* os.path.abspath, computed once for the paths that occur.

PlanSuffix == <<"_","p","l","a","n",".","j","s","o","n">>

\* os.path.join(TMP_DIR, f"{patient_id}_{int(time.time())}_plan.json")
PlanFilePath(patient_id, time) ==
    PathJoin(TMP_DIR, patient_id \o <<"_">> \o IntToStr(time) \o PlanSuffix)

KnownPaths ==
    {TMP_DIR} \cup ForgedPaths
    \cup {PatientFile(id) : id \in PatientIds}
    \cup {PlanFilePath(id, t) : id \in PatientIds, t \in 0..(MaxTime + 1)}
    \cup {PaperPath(title) : title \in PaperTitles}

AbsPaths == [p \in KnownPaths |-> NormPath(p)]

abspath(path) == IF path \in KnownPaths THEN AbsPaths[path] ELSE NormPath(path)

\* Whether the file a path names lies in directory dir or below it.
InsideDir(path, dir) == StartsWith(abspath(path), abspath(dir) \o Sep)

exists(path) == abspath(path) \in DOMAIN fs

\* the filesystem after open(path, "w") and a write of content
WriteFile(files, path, content) ==
    LET q == abspath(path)
    IN  [p \in DOMAIN files \cup {q} |-> IF p = q THEN content ELSE files[p]]

\* the filesystem after os.remove(path) of an existing file
RemoveFile(files, path) ==
    LET q == abspath(path)
    IN  [p \in DOMAIN files \ {q} |-> files[p]]

----
\* research_fetcher._perform_search: one response

\* The loop over results["data"] from paper i on: the files written, the
\* list found_files, and whether a paper raised: a paper that is no dict
\* makes paper.get raise AttributeError and a title that is no string makes
\* re.sub raise TypeError; neither is a RequestException.
RECURSIVE SavePapers(_, _, _, _)
SavePapers(data, i, found, files) ==
    IF i > Len(data) THEN [raised |-> FALSE, found |-> found, files |-> files]
    ELSE LET paper == data[i]
             abstract == DictGet(paper, KeyAbstract, None)
             title == DictGet(paper, KeyTitle, PyStr(Untitled))
         IN  IF \/ paper.t = "None"
                \/ paper.t = "dict" /\ (abstract.t = "None" \/ abstract.v = <<>>)
             THEN SavePapers(data, i + 1, found, files)
             ELSE IF paper.t # "dict" \/ title.t # "str"
                  THEN [raised |-> TRUE, found |-> found, files |-> files]
                  ELSE SavePapers(data, i + 1,
                           Append(found, PaperPath(title.v)),
                           WriteFile(files, PaperPath(title.v),
                                     TextFile(PaperText(title.v, abstract.v))))

\* for attempt in range(4)
MaxAttempts == 4

\* A _perform_search without its except RequestException clause: the error
\* of raise_for_status would leave it.
SearchAttemptUncaught(response, files) ==
    IF response.status = 429 \/ response.status = 0
    THEN [kind |-> "retry", found |-> <<>>, files |-> files]
    ELSE IF response.status # 200
    THEN [kind |-> "raise", found |-> <<>>, files |-> files]
    ELSE LET saved == SavePapers(response.data, 1, <<>>, files)
         IN  [kind |-> IF saved.raised THEN "raise" ELSE "return",
              found |-> saved.found, files |-> saved.files]

\* One pass of the retry loop on the response to one request: "retry" (429,
\* or a RequestException: raise_for_status, timeout, connection error),
\* "return" with found_files, or "raise".
SearchAttempt(response, files) ==
    IF response.status # 200
    THEN [kind |-> "retry", found |-> <<>>, files |-> files]
    ELSE LET saved == SavePapers(response.data, 1, <<>>, files)
         IN  [kind |-> IF saved.raised THEN "raise" ELSE "return",
              found |-> saved.found, files |-> saved.files]

----
\* What the search service and the RAG service can answer.

Paper(title, abstract) ==
    PyDict(<< <<PyStr(KeyTitle), title>>, <<PyStr(KeyAbstract), abstract>> >>)

\* two papers whose titles differ and whose file names are equal
PaperOne == Paper(PyStr(<<"F","l","u"," ","c","a","r","e">>), PyStr(<<"R","e","s","t",".">>))
PaperTwo == Paper(PyStr(<<"F","l","u",":"," ","c","a","r","e","?">>), PyStr(<<"D","r","i","n","k",".">>))
PaperNoAbstract == Paper(PyStr(<<"G","o","u","t">>), None)
PaperNoTitle == Paper(None, PyStr(<<"R","e","s","t",".">>))

\* what requests.get can end with: a status (0 stands for an exception of
\* the transport: timeout, connection error) and, for 200, results["data"]
SearchResponses ==
    {[status |-> 429, data |-> <<>>],
     [status |-> 500, data |-> <<>>],
     [status |-> 0, data |-> <<>>],
     [status |-> 200, data |-> <<>>],
     [status |-> 200, data |-> <<PaperOne>>],
     [status |-> 200, data |-> <<PaperNoAbstract, PaperTwo>>],
     [status |-> 200, data |-> <<PaperOne, PaperNoTitle>>]}

MarkdownAnswer == <<"*","*","F","l","u",":","*","*"," ","*"," ","R","e","s","t">>

\* what requests.post to the RAG pipeline can end with: an exception, or a
\* JSON body whose "response" is a list, a string or missing
RagOutcomes ==
    {[ok |-> FALSE, response |-> None],
     [ok |-> TRUE, response |-> None],
     [ok |-> TRUE, response |-> PlanOk],
     [ok |-> TRUE, response |-> PyStr(MarkdownAnswer)],
     [ok |-> TRUE, response |-> PyStr(NoPlanMarker)],
     [ok |-> TRUE, response |-> PyStr(PyRepr(PlanTuple))],
     [ok |-> TRUE, response |-> PyStr(PyRepr(PlanSet))],
     [ok |-> TRUE, response |-> PyStr(PyRepr(DictListKey))]}

\* parse_treatment_plan, computed once for the answers above
ParsedAnswers ==
    [text \in {o.response.v : o \in {x \in RagOutcomes : x.response.t = "str"}} |->
        parse_treatment_plan(text)]

ParsedPlan(plan_text) ==
    IF plan_text \in DOMAIN ParsedAnswers
    THEN ParsedAnswers[plan_text]
    ELSE parse_treatment_plan(plan_text)

----
\* Requests.  A worker holds the request it handles: the handler's local
\* variables, its position pc, and a record of what fetch_and_save_papers
\* did (queries: the searches begun; found_log: what each search returned;
\* exhausted: the conditions whose two searches both ran out of attempts;
\* raised_status: the status of the response whose handling raised), which
\* the code does not keep.

Idle == [kind |-> "idle", pc |-> "done"]

\* A request that arrives is given to the first worker that is free.
Free(w) ==
    /\ budget > 0
    /\ req[w].pc = "done"
    /\ \A v \in Workers : v < w => req[v].pc # "done"

\* The response is rendered: the request is complete, and the client learns
\* plan_file_path from the page.  Of a plan request the rendered values
\* stay; the other locals of the handler are gone.
Finish(r) ==
    IF r.kind = "plan"
    THEN [kind |-> "plan", pc |-> "done",
          patient_id |-> r.patient_id,
          treatment_plan_structured |-> r.treatment_plan_structured,
          plan_file_path |-> r.plan_file_path,
          error_message |-> r.error_message,
          raised_status |-> r.raised_status]
    ELSE [r EXCEPT !.pc = "done"]

Handed(r) ==
    IF r.kind = "plan" /\ r.pc = "done" /\ r.plan_file_path # None
    THEN handed \cup {[plan_file_path |-> r.plan_file_path.v,
                       treatment_plan |-> r.treatment_plan_structured]}
    ELSE handed

\* the locations clients have been given
HandedPaths == {h.plan_file_path : h \in handed}

----
\* POST /generate-plan: api_server.generate_treatment_plan

\* the finally clause: cleanup_papers runs only for a non-empty created_files
EnterFinally(r) ==
    IF r.created_files # <<>>
    THEN [r EXCEPT !.pc = "cleanup_exists", !.cleaned = 1]
    ELSE Finish(r)

\* fetch_and_save_papers returned: created_files is assigned, and the
\* handler starts its time.sleep(wait_time)
FetchReturned(r) ==
    [r EXCEPT !.pc = "sleep", !.created_files = r.fetched, !.slept_from = now]

\* an exception left fetch_and_save_papers: created_files stays [], the
\* handler's except clause sets error_message
FetchRaised(r, status) ==
    EnterFinally([r EXCEPT !.error_message = "unexpected",
                           !.raised_status = status])

\* the end of one pass of "for condition in unique_conditions"
NextCondition(r, paper_files) ==
    LET r1 == [r EXCEPT !.fetched = r.fetched \o paper_files,
                        !.ci = r.ci + 1,
                        !.phase = "primary",
                        !.attempt = 0]
    IN  IF r1.ci > Len(r.unique_conditions) THEN FetchReturned(r1) ELSE r1

\* A fetch_and_save_papers that made the fallback query after every primary
\* query.
SearchReturnedAlwaysFallback(r, found) ==
    LET r1 == [r EXCEPT !.found_log =
                   Append(r.found_log, <<r.unique_conditions[r.ci], found>>)]
    IN  IF r.phase = "primary"
        THEN [r1 EXCEPT !.phase = "fallback", !.attempt = 0,
                        !.fetched = r.fetched \o found]
        ELSE NextCondition(r1, found)

\* _perform_search returned found to fetch_and_save_papers
SearchReturned(r, found) ==
    LET r1 == [r EXCEPT !.found_log =
                   Append(r.found_log, <<r.unique_conditions[r.ci], found>>)]
    IN  IF r.phase = "primary" /\ found = <<>>
        THEN [r1 EXCEPT !.phase = "fallback", !.attempt = 0]
        ELSE NextCondition(r1, found)

\* A retry loop without a last attempt.
SearchRetriedWithoutLimit(r) == [r EXCEPT !.attempt = r.attempt + 1]

\* the retry loop goes on after a failed attempt, or ends with return []
SearchRetried(r) ==
    IF r.attempt + 1 < MaxAttempts
    THEN [r EXCEPT !.attempt = r.attempt + 1]
    ELSE SearchReturned(
             [r EXCEPT !.exhausted =
                 IF r.phase = "fallback" THEN r.exhausted \cup {r.ci}
                 ELSE r.exhausted],
             <<>>)

\* The request starts: the patient file is read and fetch_and_save_papers
\* runs up to its first search request.
GStart(w, patient_id) ==
    /\ Free(w)
    /\ exists(PatientFile(patient_id))
    /\ LET text == fs[abspath(PatientFile(patient_id))].text
           r == [kind |-> "plan", pc |-> "search",
                 patient_id |-> patient_id,
                 patient_info_text |-> text,
                 unique_conditions |-> UniqueConditions(text),
                 ci |-> 1, phase |-> "primary", attempt |-> 0,
                 fetched |-> <<>>,
                 created_files |-> <<>>, cleaned |-> 0,
                 treatment_plan_structured |-> PyList(<<>>),
                 error_message |-> "None",
                 plan_file_path |-> None,
                 slept_from |-> 0,
                 queries |-> <<>>, found_log |-> <<>>, exhausted |-> {},
                 raised_status |-> 0]
       IN  req' = [req EXCEPT ![w] =
                      IF r.unique_conditions = <<>> THEN FetchReturned(r) ELSE r]
    /\ budget' = budget - 1
    /\ UNCHANGED <<call, fs, now, handed>>

\* One request of _perform_search and what follows it up to the next
\* request: the papers of a 200 response are saved; fetch_and_save_papers
\* goes on to the fallback query or to the next condition.
GSearch(w, response) ==
    /\ req[w].kind = "plan" /\ req[w].pc = "search"
    /\ LET r0 == req[w]
           r == IF r0.attempt = 0
                THEN [r0 EXCEPT !.queries =
                         Append(r0.queries, <<r0.unique_conditions[r0.ci], r0.phase>>)]
                ELSE r0
           res == SearchAttempt(response, fs)
           r2 == CASE res.kind = "retry" -> SearchRetried(r)
                   [] res.kind = "return" -> SearchReturned(r, res.found)
                   [] res.kind = "raise" -> FetchRaised(r, response.status)
       IN  /\ fs' = res.files
           /\ req' = [req EXCEPT ![w] = r2]
           /\ handed' = Handed(r2)
    /\ UNCHANGED <<call, now, budget>>

\* time.sleep(wait_time) returns: the clock has moved on by then.  What
\* fetch_and_save_papers held and did is no longer kept.
GSleep(w) ==
    /\ req[w].kind = "plan" /\ req[w].pc = "sleep"
    /\ now > req[w].slept_from
    /\ req' = [req EXCEPT ![w].pc = "rag",
                          ![w].queries = <<>>,
                          ![w].found_log = <<>>,
                          ![w].exhausted = {},
                          ![w].fetched = <<>>,
                          ![w].ci = 1]
    /\ UNCHANGED <<call, fs, now, budget, handed>>

\* A handler that stored whatever the RAG pipeline answered.
ShouldStoreAlways(plan) == TRUE

\* if treatment_plan_structured:
ShouldStore(plan) == Truthy(plan)

\* requests.post to the RAG pipeline and the reading of its answer.
GRag(w, outcome) ==
    /\ req[w].kind = "plan" /\ req[w].pc = "rag"
    /\ LET r == req[w]
           rag_response == outcome.response
           plan == IF rag_response.t = "list" THEN rag_response
                   ELSE IF rag_response.t = "str"
                        THEN ParsedPlan(rag_response.v)
                        ELSE r.treatment_plan_structured
           r1 == IF ~outcome.ok
                 THEN EnterFinally([r EXCEPT !.error_message = "rag"])
                 ELSE IF plan.t = "raise"
                 THEN EnterFinally([r EXCEPT !.error_message = "unexpected in parse"])
                 ELSE IF ShouldStore(plan)
                      THEN [r EXCEPT !.treatment_plan_structured = plan,
                                     !.pc = "store_open"]
                      ELSE EnterFinally([r EXCEPT !.treatment_plan_structured = plan])
       IN  /\ req' = [req EXCEPT ![w] = r1]
           /\ handed' = Handed(r1)
    /\ UNCHANGED <<call, fs, now, budget>>

\* plan_file_path is computed and the file is opened for writing, which
\* creates it or empties it.
GStoreOpen(w) ==
    /\ req[w].kind = "plan" /\ req[w].pc = "store_open"
    /\ LET path == PlanFilePath(req[w].patient_id, now)
       IN  /\ fs' = WriteFile(fs, path, TruncatedFile)
           /\ req' = [req EXCEPT ![w].plan_file_path = PyStr(path),
                                 ![w].pc = "store_dump"]
    /\ UNCHANGED <<call, now, budget, handed>>

\* json.dump(treatment_plan_structured, f): the document is written, or
\* TypeError is raised and the handler's except clause sets error_message.
GStoreDump(w) ==
    /\ req[w].kind = "plan" /\ req[w].pc = "store_dump"
    /\ LET r == req[w]
           ok == JsonSerializable(r.treatment_plan_structured)
           r1 == EnterFinally(IF ok THEN r
                              ELSE [r EXCEPT !.error_message = "unexpected"])
       IN  /\ fs' = IF ok
                    THEN WriteFile(fs, r.plan_file_path.v,
                                   JsonFile(r.treatment_plan_structured))
                    ELSE fs
           /\ req' = [req EXCEPT ![w] = r1]
           /\ handed' = Handed(r1)
    /\ UNCHANGED <<call, now, budget>>

\* cleanup_papers goes on to the next path, or returns
CleanupNext(r) ==
    IF r.cleaned + 1 > Len(r.created_files) THEN Finish(r)
    ELSE [r EXCEPT !.cleaned = r.cleaned + 1, !.pc = "cleanup_exists"]

\* cleanup_papers: os.path.exists(path)
GCleanupExists(w) ==
    /\ req[w].kind = "plan" /\ req[w].pc = "cleanup_exists"
    /\ LET r == req[w]
           r1 == IF exists(r.created_files[r.cleaned])
                 THEN [r EXCEPT !.pc = "cleanup_remove"]
                 ELSE CleanupNext(r)
       IN  /\ req' = [req EXCEPT ![w] = r1]
           /\ handed' = Handed(r1)
    /\ UNCHANGED <<call, fs, now, budget>>

\* what os.remove(path) ends with; permitted: whether the process may
\* remove the file
RemoveOutcome(files, path, permitted) ==
    IF abspath(path) \notin DOMAIN files THEN "FileNotFoundError"
    ELSE IF permitted THEN "removed"
    ELSE "PermissionError"

\* An except clause for the missing file only.
CleanupCaughtNotFoundOnly(exception) == exception = "FileNotFoundError"

\* except OSError as e
CleanupCaught(exception) ==
    exception \in {"FileNotFoundError", "PermissionError"}

\* an exception leaves cleanup_papers and the finally clause: the handler
\* raises and renders nothing
CleanupRaised(r) ==
    [kind |-> "plan", pc |-> "done",
     patient_id |-> r.patient_id,
     treatment_plan_structured |-> PyList(<<>>),
     plan_file_path |-> None,
     error_message |-> "cleanup raised",
     raised_status |-> r.raised_status]

\* cleanup_papers: os.remove(path) and the except clause
GCleanupRemove(w, permitted) ==
    /\ req[w].kind = "plan" /\ req[w].pc = "cleanup_remove"
    /\ LET r == req[w]
           path == r.created_files[r.cleaned]
           outcome == RemoveOutcome(fs, path, permitted)
           r1 == IF outcome = "removed" \/ CleanupCaught(outcome)
                 THEN CleanupNext(r)
                 ELSE CleanupRaised(r)
       IN  /\ fs' = IF outcome = "removed" THEN RemoveFile(fs, path) ELSE fs
           /\ req' = [req EXCEPT ![w] = r1]
           /\ handed' = Handed(r1)
    /\ UNCHANGED <<call, now, budget>>

----
\* POST /generate-education-material: api_server.generate_education_material_pdf

\* the test of the handler's first if statement
PathAllowed(plan_file_path) ==
    StartsWith(abspath(plan_file_path), abspath(TMP_DIR))

\* json.load(f) of an open file: the value of a complete JSON document;
\* anything else makes it raise JSONDecodeError
JsonLoads(content) == content.kind = "json" /\ content.complete

\* Whether generate_educational_pdf can format plan_data: item.get needs a
\* dict, and str.join a list of strings.
PdfDataOk(plan_data) ==
    \A i \in DOMAIN plan_data.v :
        LET item == plan_data.v[i]
            details == DictGet(item, KeyDetails, PyList(<<>>))
        IN  /\ item.t = "dict"
            /\ details.t = "list" =>
                   \A j \in DOMAIN details.v : details.v[j].t = "str"

\* A handler whose removal of the file were the last statement of the try
\* body: an error response would end the request.
FailedWithoutFinally(r, status, error) ==
    [r EXCEPT !.status = status, !.error = error, !.pc = "done"]

\* an except clause has built the error response; the finally clause follows
Failed(r, status, error) ==
    [r EXCEPT !.status = status, !.error = error, !.pc = "exists"]

RStart(w, plan_file_path) ==
    /\ Free(w)
    /\ plan_file_path \in HandedPaths \cup ForgedPaths
    /\ req' = [req EXCEPT ![w] =
                  [kind |-> "pdf", pc |-> "check",
                   plan_file_path |-> plan_file_path,
                   plan_data |-> None,
                   status |-> 0, error |-> "None"]]
    /\ budget' = budget - 1
    /\ UNCHANGED <<call, fs, now, handed>>

\* the path check: ValueError("Invalid file path provided.") is caught by
\* the first except clause
RCheck(w) ==
    /\ req[w].kind = "pdf" /\ req[w].pc = "check"
    /\ req' = [req EXCEPT ![w] =
                  IF PathAllowed(req[w].plan_file_path)
                  THEN [req[w] EXCEPT !.pc = "open"]
                  ELSE Failed(req[w], 500, "Invalid file path provided.")]
    /\ UNCHANGED <<call, fs, now, budget, handed>>

\* A handler without the except FileNotFoundError clause: the missing file
\* would fall to except Exception.
ReadPlanNoNotFoundClause(r) ==
    LET path == abspath(r.plan_file_path)
    IN  IF path \notin DOMAIN fs
        THEN Failed(r, 500, "unexpected")
        ELSE IF ~JsonLoads(fs[path])
        THEN Failed(r, 500, "JSONDecodeError")
        ELSE IF fs[path].doc.t # "list"
        THEN Failed(r, 500, "Data in plan file is not a list.")
        ELSE [r EXCEPT !.plan_data = fs[path].doc, !.pc = "pdf"]

\* open, json.load and the isinstance check, with the except clause that
\* catches what they raise
ReadPlan(r) ==
    LET path == abspath(r.plan_file_path)
    IN  IF path \notin DOMAIN fs
        THEN Failed(r, 404, "Plan file not found")
        ELSE IF ~JsonLoads(fs[path])
        THEN Failed(r, 500, "JSONDecodeError")
        ELSE IF fs[path].doc.t # "list"
        THEN Failed(r, 500, "Data in plan file is not a list.")
        ELSE [r EXCEPT !.plan_data = fs[path].doc, !.pc = "pdf"]

ROpen(w) ==
    /\ req[w].kind = "pdf" /\ req[w].pc = "open"
    /\ req' = [req EXCEPT ![w] = ReadPlan(req[w])]
    /\ UNCHANGED <<call, fs, now, budget, handed>>

\* generate_educational_pdf(plan_data): the PDF, or an exception of the
\* formatting or of the document build
RPdf(w, built) ==
    /\ req[w].kind = "pdf" /\ req[w].pc = "pdf"
    /\ req' = [req EXCEPT ![w] =
                  IF built /\ PdfDataOk(req[w].plan_data)
                  THEN [req[w] EXCEPT !.status = 200, !.pc = "exists"]
                  ELSE Failed(req[w], 500, "unexpected")]
    /\ UNCHANGED <<call, fs, now, budget, handed>>

\* finally: if plan_file_path and os.path.exists(plan_file_path)
RExists(w) ==
    /\ req[w].kind = "pdf" /\ req[w].pc = "exists"
    /\ req' = [req EXCEPT ![w] =
                  IF req[w].plan_file_path # <<>> /\ exists(req[w].plan_file_path)
                  THEN [req[w] EXCEPT !.pc = "remove"]
                  ELSE Finish(req[w])]
    /\ UNCHANGED <<call, fs, now, budget, handed>>

\* finally: os.remove(plan_file_path); an exception is caught and logged
RRemove(w) ==
    /\ req[w].kind = "pdf" /\ req[w].pc = "remove"
    /\ fs' = RemoveFile(fs, req[w].plan_file_path)
    /\ req' = [req EXCEPT ![w] = Finish(req[w])]
    /\ UNCHANGED <<call, now, budget, handed>>

----
\* The clock.

Tick ==
    /\ now < MaxTime
    /\ now' = now + 1
    /\ UNCHANGED <<call, fs, req, budget, handed>>

----
\* Specifications.

\* the files of the host at start: the patient records, one JSON file in a
\* directory next to the temporary directory and one elsewhere
InitFiles(texts) ==
    [p \in {abspath(PatientFile(id)) : id \in PatientIds}
           \cup {abspath(SiblingFile), abspath(OutsideFile)} |->
        IF p = abspath(SiblingFile) \/ p = abspath(OutsideFile)
        THEN JsonFile(PlanOk)
        ELSE LET id == CHOOSE i \in PatientIds : abspath(PatientFile(i)) = p
             IN  TextFile(texts[id])]

\* no function is called on its own
NoCall == [fn |-> "none", pc |-> "returned"]

InitCommon ==
    /\ now = 0
    /\ call = NoCall
    /\ req = [w \in Workers |-> Idle]
    /\ handed = {}

\* The artifact broker: plan requests for patients whose record lists no
\* disorder (no search is made), and PDF requests.
InitBroker == InitCommon /\ fs = InitFiles(PlainText) /\ budget = MaxRequests

NextBroker ==
    \/ \E w \in Workers, p \in PatientIds : GStart(w, p)
    \/ \E w \in Workers : GSleep(w)
    \/ \E w \in Workers, o \in RagOutcomes : GRag(w, o)
    \/ \E w \in Workers : GStoreOpen(w)
    \/ \E w \in Workers : GStoreDump(w)
    \/ \E w \in Workers, p \in HandedPaths \cup ForgedPaths : RStart(w, p)
    \/ \E w \in Workers : RCheck(w)
    \/ \E w \in Workers : ROpen(w)
    \/ \E w \in Workers, b \in BOOLEAN : RPdf(w, b)
    \/ \E w \in Workers : RExists(w)
    \/ \E w \in Workers : RRemove(w)
    \/ Tick

SpecBroker == InitBroker /\ [][NextBroker]_vars

\* The research fetcher: plan requests for patients with disorders.
InitFetch == InitCommon /\ fs = InitFiles(DisorderText) /\ budget = MaxPlanRequests

NextFetch ==
    \/ \E w \in Workers, p \in PatientIds : GStart(w, p)
    \/ \E w \in Workers, s \in SearchResponses : GSearch(w, s)
    \/ \E w \in Workers : GSleep(w)
    \/ \E w \in Workers, o \in RagOutcomes : GRag(w, o)
    \/ \E w \in Workers : GStoreOpen(w)
    \/ \E w \in Workers : GStoreDump(w)
    \/ \E w \in Workers : GCleanupExists(w)
    \/ \E w \in Workers : GCleanupRemove(w, TRUE)
    \/ Tick

SpecFetch == InitFetch /\ [][NextFetch]_vars

\* Plan requests whose search requests all end: requests.get returns a
\* response or raises within its timeout, and the sleeps between the
\* attempts end.
InitAnswered ==
    /\ InitCommon
    /\ fs = InitFiles(DisorderText)
    /\ budget = MaxAnsweredRequests

SpecAnswered ==
    /\ InitAnswered
    /\ [][NextFetch]_vars
    /\ \A w \in Workers : WF_vars(\E s \in SearchResponses : GSearch(w, s))

\* Plan requests on a host whose research directory already holds a
\* document, under the name the paper "Flu care" is saved as.
ExistingPaper == PaperPath(<<"F","l","u"," ","c","a","r","e">>)
ExistingText == TextFile(<<"K","e","p","t">>)

InitResearch ==
    /\ InitCommon
    /\ fs = WriteFile(InitFiles(DisorderText), ExistingPaper, ExistingText)
    /\ budget = MaxPlanRequests

SpecResearch == InitResearch /\ [][NextFetch]_vars

\* The functions called on their own start from a server at rest.
InitAtRest ==
    /\ now = 0 /\ budget = 0 /\ handed = {}
    /\ req = [w \in Workers |-> Idle]
    /\ fs = InitFiles(PlainText)

\* parse_treatment_plan on its own.  The plan it returns from a literal is
\* then written as markdown and parsed again.
TextAlphabet == {"*", ":", " ", "F"}

\* the response of the scenario: a plan and then the preamble as a heading
ScenarioAnswer ==
    <<"*","*","H","y","p","e","r","t","e","n","s","i","o","n",":","*","*"," ","*"," ","R","e","d","u","c","e"," ","s","o","d","i","u","m"," ","*"," ","M","o","n","i","t","o","r"," ","B","P"," ","*","*","P","r","e","l","i","m","i","n","a","r","y"," ","T","r","e","a","t","m","e","n","t"," ","P","l","a","n"," ","S","u","m","m","a","r","y",":","*","*"," ","*"," ","d","o","n","e">>

\* the preamble as a heading between two sections
PreambleBetween ==
    <<"*","*","F","l","u",":","*","*"," ","*"," ","R","e","s","t"," ","*","*","P","r","e","l","i","m","i","n","a","r","y"," ","T","r","e","a","t","m","e","n","t"," ","P","l","a","n","*","*"," ","*"," ","x"," ","*","*","G","o","u","t",":","*","*"," ","*"," ","I","c","e">>

\* markdown with a heading of colons and blanks, with a heading without
\* details, with an odd number of delimiters, and with the preamble
MarkdownSamples ==
    {MarkdownAnswer, ScenarioAnswer, PreambleBetween,
     <<"*","*",":"," ",":","*","*"," ","*"," ","R","e","s","t">>,
     <<"*","*","F","l","u",":","*","*"," ","*","*","G","o","u","t",":","*","*"," ","*"," ","I","c","e">>,
     <<"*","*","F","l","u",":","*","*"," ","*"," ","R","e","s","t"," ","*","*","G","o","u","t">>,
     <<"*","*">> \o Preamble \o <<"*","*"," ","*","*","F","l","u","*","*"," ","*","R","e","s","t","*","I","c","e">>,
     NoPlanMarker, FailedMarker \o <<" ","*","*","F","*","*","F">>}

ParseInputs ==
    UNION {[1..n -> TextAlphabet] : n \in 0..MaxText}
        \cup {LiteralTexts[x] : x \in LiteralValues}
        \cup MarkdownSamples

\* whether plan is a list of {condition: str, details: list of str}
WellTyped(plan) ==
    /\ plan.t = "list"
    /\ \A i \in DOMAIN plan.v :
           LET e == plan.v[i]
           IN  /\ e.t = "dict"
               /\ Len(e.v) = 2
               /\ e.v[1][1] = PyStr(KeyCondition)
               /\ e.v[1][2].t = "str"
               /\ e.v[2][1] = PyStr(KeyDetails)
               /\ e.v[2][2].t = "list"
               /\ \A j \in DOMAIN e.v[2][2].v : e.v[2][2].v[j].t = "str"

\* the details of an entry, each introduced by "*"
RECURSIVE RenderDetails(_)
RenderDetails(details) ==
    IF details = <<>> THEN <<>>
    ELSE <<" ", "*", " ">> \o Head(details).v \o RenderDetails(Tail(details))

\* a plan as markdown: each entry as **<condition>:** and its details
RECURSIVE render_as_markdown(_)
render_as_markdown(entries) ==
    IF entries = <<>> THEN <<>>
    ELSE LET e == Head(entries)
         IN  <<"*", "*">> \o e.v[1][2].v \o <<":", "*", "*">>
                 \o RenderDetails(e.v[2][2].v)
                 \o (IF Len(entries) > 1 THEN <<"\n">> ELSE <<>>)
                 \o render_as_markdown(Tail(entries))

InitParse ==
    /\ InitAtRest
    /\ \E text \in ParseInputs :
           call = [fn |-> "parse_treatment_plan", pc |-> "called",
                   arg |-> text, result |-> None, origin |-> None]

\* parse_treatment_plan(arg) returns or raises
ParseCall ==
    /\ call.fn = "parse_treatment_plan" /\ call.pc = "called"
    /\ call' = [call EXCEPT !.pc = "returned",
                            !.result = parse_treatment_plan(call.arg)]
    /\ UNCHANGED <<fs, now, req, budget, handed>>

\* whether parse_treatment_plan returns the value of the literal
LiteralPath(plan_text) ==
    LET parsed_data == ast_literal_eval(plan_text)
    IN  /\ ~Contains(plan_text, NoPlanMarker)
        /\ ~Contains(plan_text, FailedMarker)
        /\ parsed_data.t = "list"
        /\ \A i \in DOMAIN parsed_data.v : parsed_data.v[i].t = "dict"

\* the plan returned from a literal is written as markdown and given to
\* parse_treatment_plan
RenderCall ==
    /\ call.fn = "parse_treatment_plan" /\ call.pc = "returned"
    /\ call.origin = None
    /\ LiteralPath(call.arg)
    /\ WellTyped(call.result)
    /\ call' = [fn |-> "parse_treatment_plan", pc |-> "called",
                arg |-> render_as_markdown(call.result.v),
                result |-> None, origin |-> call.result]
    /\ UNCHANGED <<fs, now, req, budget, handed>>

NextParse == ParseCall \/ RenderCall

SpecParse == InitParse /\ [][NextParse]_vars

\* extract_conditions on its own, for patient records made of the lines
\* that ingest_synthea_csv writes (a label and its values on one line),
\* of list items, and of blank lines.
RecordLines ==
    {<<"N","a","m","e",":"," ","b">>,
     <<"C","o","n","d","i","t","i","o","n","s",":"," ","F","l","u"," ","(","d","i","s","o","r","d","e","r",")",";"," ","G","o","u","t"," ","(","d","i","s","o","r","d","e","r",")">>,
     <<"-"," ","G","o","u","t"," ","(","d","i","s","o","r","d","e","r",")">>,
     <<"C","o","u","g","h"," ","(","f","i","n","d","i","n","g",")">>,
     <<"M","e","d","i","c","a","t","i","o","n","s",":"," ","x"," ","(","d","i","s","o","r","d","e","r",")">>,
     ConditionsLabel,
     <<>>}

\* the text of a record: every line ends with a newline
RECURSIVE RecordText(_)
RecordText(lines) ==
    IF lines = <<>> THEN <<>>
    ELSE Head(lines) \o <<"\n">> \o RecordText(Tail(lines))

\* the records of at most MaxRecord characters
PatientTexts ==
    {text \in {RecordText(lines) :
                  lines \in UNION {[1..n -> RecordLines] : n \in 1..MaxLines}} :
        Len(text) <= MaxRecord}

InitExtract ==
    /\ InitAtRest
    /\ \E text \in PatientTexts :
           call = [fn |-> "extract_conditions", pc |-> "called",
                   arg |-> text, result |-> <<>>]

\* extract_conditions(arg) returns
ExtractCall ==
    /\ call.fn = "extract_conditions" /\ call.pc = "called"
    /\ call' = [call EXCEPT !.pc = "returned",
                            !.result = extract_conditions(call.arg)]
    /\ UNCHANGED <<fs, now, req, budget, handed>>

NextExtract == ExtractCall

SpecExtract == InitExtract /\ [][NextExtract]_vars

\* _perform_search on its own: the responses to its requests are any of
\* SearchResponses; the call record keeps the requests made, the responses
\* received and the delays slept.
RECURSIVE Pow2(_)
Pow2(n) == IF n = 0 THEN 1 ELSE 2 * Pow2(n - 1)

\* A retry loop that slept one second more after each attempt.
BackoffDelayLinear(status, attempt) ==
    IF status = 429 \/ attempt < 3 THEN <<attempt + 1>> ELSE <<>>

\* the time.sleep calls after a failed attempt: wait_time = 2 ** attempt
\* after a 429; 2 ** attempt after a RequestException if attempt < 3
BackoffDelay(status, attempt) ==
    IF status = 429 THEN <<Pow2(attempt)>>
    ELSE IF attempt < 3 THEN <<Pow2(attempt)>>
    ELSE <<>>

NewSearch ==
    [fn |-> "_perform_search", pc |-> "request", attempt |-> 0,
     requests |-> 0, responses |-> <<>>, delays |-> <<>>, found |-> <<>>]

\* one pass of the retry loop of the call c on a response: the call
\* afterwards and the files afterwards
SearchStep(c, response, files) ==
    LET res == SearchAttempt(response, files)
        c1 == [c EXCEPT !.requests = c.requests + 1,
                        !.responses = Append(c.responses, response),
                        !.delays = IF res.kind = "retry"
                                   THEN c.delays \o BackoffDelay(response.status, c.attempt)
                                   ELSE c.delays]
    IN  [files |-> res.files,
         call |-> CASE res.kind = "retry" ->
                          IF c.attempt + 1 < MaxAttempts
                          THEN [c1 EXCEPT !.attempt = c.attempt + 1]
                          ELSE [c1 EXCEPT !.pc = "returned", !.found = <<>>]
                    [] res.kind = "return" ->
                          [c1 EXCEPT !.pc = "returned", !.found = res.found]
                    [] res.kind = "raise" -> [c1 EXCEPT !.pc = "raised"]]

InitSearch ==
    /\ InitAtRest
    /\ call = NewSearch

\* requests.get returns or raises, and the loop body handles it
SearchCall(response) ==
    /\ call.fn = "_perform_search" /\ call.pc = "request"
    /\ LET s == SearchStep(call, response, fs)
       IN  call' = s.call /\ fs' = s.files
    /\ UNCHANGED <<now, req, budget, handed>>

NextSearch == \E response \in SearchResponses : SearchCall(response)

SpecSearch == InitSearch /\ [][NextSearch]_vars

\* cleanup_papers on its own: two plan requests whose RAG query failed
\* enter the finally clause, each with a list of research files, some of
\* which exist; the process may lack the permission to remove a file.
CleanupPaths ==
    {PaperPath(<<"F","l","u"," ","c","a","r","e">>), PaperPath(<<"G","o","u","t">>)}

CleanupLists ==
    UNION {[1..n -> CleanupPaths] : n \in 1..MaxFiles}

CleaningRequest(patient_id, file_paths) ==
    [kind |-> "plan", pc |-> "cleanup_exists",
     patient_id |-> patient_id,
     patient_info_text |-> DisorderText[patient_id],
     unique_conditions |-> UniqueConditions(DisorderText[patient_id]),
     ci |-> 1, phase |-> "primary", attempt |-> 0,
     fetched |-> <<>>,
     created_files |-> file_paths, cleaned |-> 1,
     treatment_plan_structured |-> PyList(<<>>),
     error_message |-> "rag",
     plan_file_path |-> None,
     slept_from |-> 0,
     queries |-> <<>>, found_log |-> <<>>, exhausted |-> {},
     raised_status |-> 0]

InitCleanup ==
    /\ now = 0 /\ budget = 0 /\ handed = {} /\ call = NoCall
    /\ \E present \in SUBSET CleanupPaths :
           fs = [p \in DOMAIN InitFiles(DisorderText)
                        \cup {abspath(q) : q \in present} |->
                    IF p \in DOMAIN InitFiles(DisorderText)
                    THEN InitFiles(DisorderText)[p]
                    ELSE TextFile(<<"T","i","t","l","e",":">>)]
    /\ \E la, lb \in CleanupLists :
           req = [w \in Workers |->
                     IF w = 1 THEN CleaningRequest(<<"a">>, la)
                     ELSE CleaningRequest(<<"b">>, lb)]

NextCleanup ==
    \/ \E w \in Workers : GCleanupExists(w)
    \/ \E w \in Workers, permitted \in BOOLEAN : GCleanupRemove(w, permitted)

SpecCleanup == InitCleanup /\ [][NextCleanup]_vars

----
\* Properties of the artifact broker (SpecBroker).

PdfRequests == {w \in Workers : req[w].kind = "pdf"}
PlanRequests == {w \in Workers : req[w].kind = "plan"}

\* C1: a PDF request whose location is not inside the temporary directory,
\* the sibling directory whose name starts with the same characters
\* included, is rejected with the invalid-path error and reads no plan.
C1_OutsideIsRejected ==
    \A w \in PdfRequests :
        (~InsideDir(req[w].plan_file_path, TMP_DIR) /\ req[w].pc # "check")
            => /\ req[w].error = "Invalid file path provided."
               /\ req[w].plan_data = None

\* C2: of the PDF requests made with one location that a plan request
\* returned, at most one reads the plan.
C2_AtMostOneReads ==
    \A path \in HandedPaths :
        Cardinality({w \in PdfRequests :
                        /\ req[w].plan_file_path = path
                        /\ req[w].plan_data # None}) <= 1

\* C3: the plan a PDF request reads from a location that one plan request
\* stored, and no other, equals the plan that was stored.
C3_ReadsWhatWasStored ==
    \A w \in PdfRequests, h \in handed :
        (/\ req[w].plan_file_path = h.plan_file_path
         /\ req[w].plan_data # None
         /\ \A h2 \in handed : h2.plan_file_path = h.plan_file_path => h2 = h
         /\ \A g \in PlanRequests :
                req[g].pc # "done" => req[g].plan_file_path # PyStr(h.plan_file_path))
            => req[w].plan_data = h.treatment_plan

\* C4: a PDF request for a location inside the temporary directory passes
\* the path check; when no file is there as it opens the file, it answers
\* 404 "Plan file not found", and keeps that answer to its end.
C4_MissingIsNotFound ==
    [][\A w \in Workers :
          LET r == req[w]
              r2 == req'[w]
          IN  (r.kind = "pdf" /\ r2 # r /\ InsideDir(r.plan_file_path, TMP_DIR))
                  => /\ r.pc = "check" => r2.pc = "open"
                     /\ (r.pc = "open" /\ ~exists(r.plan_file_path))
                            => r2.status = 404 /\ r2.error = "Plan file not found"
                     /\ (r.pc # "done" /\ r.status = 404)
                            => r2.status = 404 /\ r2.error = r.error]_vars

\* a second PDF request for a returned location, made after the first one
\* removed the file, has answered 404
C4_SecondRequestNotFound ==
    \E w \in PdfRequests :
        /\ req[w].pc = "done"
        /\ req[w].status = 404
        /\ req[w].error = "Plan file not found"
        /\ req[w].plan_file_path \in HandedPaths
        /\ InsideDir(req[w].plan_file_path, TMP_DIR)

C8_DistinctLocations ==
    \A w1, w2 \in PlanRequests :
        (/\ w1 # w2
         /\ req[w1].plan_file_path # None
         /\ req[w2].plan_file_path # None)
            => req[w1].plan_file_path # req[w2].plan_file_path

\* C9: a plan request whose plan is empty does not store: it holds no
\* location, and every file in the temporary directory is the artifact of
\* a non-empty plan.
C9_EmptyPlanNotStored ==
    /\ \A w \in PlanRequests :
           ~Truthy(req[w].treatment_plan_structured)
               => /\ req[w].plan_file_path = None
                  /\ req[w].pc \notin {"store_open", "store_dump"}
    /\ \A p \in DOMAIN fs :
           InsideDir(p, TMP_DIR)
               => \/ \E h \in handed :
                         /\ abspath(h.plan_file_path) = p
                         /\ Truthy(h.treatment_plan)
                  \/ \E w \in PlanRequests :
                         /\ req[w].plan_file_path # None
                         /\ abspath(req[w].plan_file_path.v) = p
                         /\ Truthy(req[w].treatment_plan_structured)

\* a plan request that the RAG pipeline answered with no plan has ended
\* without a location
C9_EmptyPlanEnded ==
    \E w \in PlanRequests :
        /\ req[w].pc = "done"
        /\ req[w].error_message = "None"
        /\ ~Truthy(req[w].treatment_plan_structured)
        /\ req[w].plan_file_path = None

\* C16: a PDF request whose location is rejected by the path check is
\* answered with a client error, a status from 400 to 499.
C16_InvalidPathIsClientError ==
    \A w \in PdfRequests :
        req[w].error = "Invalid file path provided."
            => req[w].status \in 400..499

----
\* Properties of the research fetcher (SpecFetch).

\* the research files a plan request has written and still needs: until
\* the RAG pipeline has answered
ResearchFilesInUse(r) ==
    IF r.kind = "plan" /\ r.pc \in {"search", "sleep", "rag"}
    THEN {abspath(p) : p \in Range(r.fetched) \cup Range(r.created_files)}
    ELSE {}

\* the research files a plan request has written
ResearchFilesWritten(r) ==
    IF r.kind = "plan" /\ r.pc # "done"
    THEN {abspath(p) : p \in Range(r.fetched) \cup Range(r.created_files)}
    ELSE {}

\* C6: when a plan request ends, the research files it wrote are gone:
\* those it wrote before its last step, and it writes none in that step.
C6_ResearchFilesGoneAtEnd ==
    [][\A w \in Workers :
          (/\ req[w].kind = "plan"
           /\ req[w].pc # "done"
           /\ req'[w].pc = "done")
              => /\ \A p \in ResearchFilesWritten(req[w]) : p \notin DOMAIN fs'
                 /\ \A p \in DOMAIN fs' :
                        InsideDir(p, RESEARCH_PAPER_PATH) => p \in DOMAIN fs]_vars

\* C7: a step of a plan request leaves alone the research files that a
\* plan request for another patient wrote and still needs.
C7_OtherPatientsFilesKept ==
    [][\A g, h \in Workers :
          (/\ g # h
           /\ req[g].kind = "plan"
           /\ req[h].kind = "plan"
           /\ req[g].patient_id # req[h].patient_id
           /\ req'[h] # req[h])
              => \A p \in ResearchFilesInUse(req[g]) \cap DOMAIN fs :
                     p \in DOMAIN fs' /\ fs'[p] = fs[p]]_vars

\* found_files of every _perform_search call, in order
RECURSIVE FoundFiles(_)
FoundFiles(found_log) ==
    IF found_log = <<>> THEN <<>>
    ELSE found_log[1][2] \o FoundFiles(Tail(found_log))

\* C10: nothing but the handling of a 200 response raises out of the fetch;
\* when the fetch returns, the primary query of every unique condition was
\* made, the files returned are those the searches found, and a condition
\* whose searches all failed gave none.
C10_SearchFailureContained ==
    \A w \in PlanRequests :
        LET r == req[w]
        IN  /\ r.raised_status \in {0, 200}
            /\ (r.error_message = "unexpected" /\ r.plan_file_path = None)
                   => r.raised_status = 200
            /\ r.pc = "sleep"
                   => /\ \A i \in DOMAIN r.unique_conditions :
                             <<r.unique_conditions[i], "primary">> \in Range(r.queries)
                      /\ r.created_files = FoundFiles(r.found_log)
                      /\ \A i \in r.exhausted, k \in DOMAIN r.found_log :
                             r.found_log[k][1] = r.unique_conditions[i]
                                 => r.found_log[k][2] = <<>>

\* the fetch has returned with the files of one condition after every
\* search for another condition failed
C10_FetchReturnedAfterFailures ==
    \E w \in PlanRequests :
        /\ req[w].pc = "sleep"
        /\ req[w].exhausted # {}
        /\ req[w].created_files # <<>>
        /\ Len(req[w].unique_conditions) > 1

\* C22: a step of a PDF request whose location was rejected by the path
\* check changes no file, and no step of a PDF request removes or changes
\* a file outside the temporary directory.
C22_RejectedLeavesFiles ==
    [][\A w \in PdfRequests :
          req'[w] # req[w]
              => /\ req[w].error = "Invalid file path provided." => fs' = fs
                 /\ \A p \in DOMAIN fs :
                        ~InsideDir(p, TMP_DIR)
                            => p \in DOMAIN fs' /\ fs'[p] = fs[p]]_vars

\* C23: when a plan request ends with a location, the file at that
\* location exists and holds the complete document of the plan the request
\* shows; a request whose store failed ends without a location.
C23_HandedLocationHoldsPlan ==
    [][\A w \in PlanRequests :
          (req[w].pc # "done" /\ req'[w].pc = "done"
              /\ req'[w].plan_file_path # None)
              => LET path == abspath(req'[w].plan_file_path.v)
                 IN  /\ path \in DOMAIN fs'
                     /\ fs'[path] = JsonFile(req'[w].treatment_plan_structured)]_vars

\* C24: the document that was in the research directory before any plan
\* request started is there, with its content, whatever the plan requests
\* fetch and clean up.
C24_ExistingResearchKept ==
    /\ abspath(ExistingPaper) \in DOMAIN fs
    /\ fs[abspath(ExistingPaper)] = ExistingText

\* the plan requests that are in fetch_and_save_papers or have just left it
Fetching == {w \in PlanRequests : req[w].pc \in {"search", "sleep"}}

\* C19: the fallback query of a condition is made once, right after the
\* primary query of that condition, exactly when that one returned no
\* file; the query after it, and the query after a primary query that
\* returned a file, is the primary query of another condition.
C19_FallbackAfterEmptyPrimary ==
    \A w \in Fetching :
        LET r == req[w]
            q == r.queries
            n == Len(q)
        IN  /\ Len(r.found_log) \in {n - 1, n}
            /\ r.pc = "sleep" => Len(r.found_log) = n
            /\ \A j, k \in 1..n : q[j] = q[k] => j = k
            /\ \A k \in 1..n :
                   /\ q[k][2] = "fallback"
                         => /\ k > 1
                            /\ q[k - 1] = <<q[k][1], "primary">>
                            /\ r.found_log[k - 1][2] = <<>>
                   /\ (q[k][2] = "fallback" /\ k < n)
                         => q[k + 1][2] = "primary" /\ q[k + 1][1] # q[k][1]
                   /\ (q[k][2] = "primary" /\ k < n /\ r.found_log[k][2] # <<>>)
                         => q[k + 1][2] = "primary" /\ q[k + 1][1] # q[k][1]
                   /\ (q[k][2] = "primary" /\ k \in DOMAIN r.found_log
                           /\ r.found_log[k][2] = <<>> /\ (k < n \/ r.pc = "sleep"))
                         => k < n /\ q[k + 1] = <<q[k][1], "fallback">>

\* the fetch has returned after a primary query without a file, its
\* fallback query, and a primary query with a file
C19_BothCasesFetched ==
    \E w \in Fetching :
        /\ req[w].pc = "sleep"
        /\ \E k \in DOMAIN req[w].queries : req[w].queries[k][2] = "fallback"
        /\ \E k \in DOMAIN req[w].queries :
               /\ req[w].queries[k][2] = "primary"
               /\ req[w].found_log[k][2] # <<>>

\* extract_conditions of the patient records, computed once
ExtractedTable ==
    [text \in Range(PlainText) \cup Range(DisorderText) |->
        extract_conditions(text)]

\* the conditions of the primary queries made, in their order
RECURSIVE PrimaryConditions(_)
PrimaryConditions(queries) ==
    IF queries = <<>> THEN <<>>
    ELSE (IF Head(queries)[2] = "primary" THEN <<Head(queries)[1]>> ELSE <<>>)
             \o PrimaryConditions(Tail(queries))

\* C20: the primary queries of a fetch are for conditions that
\* extract_conditions returns for the record, no condition twice, and when
\* the fetch returns there was one for every such condition.
C20_OnePrimaryPerCondition ==
    \A w \in Fetching :
        LET primary == PrimaryConditions(req[w].queries)
            extracted == Range(ExtractedTable[req[w].patient_info_text])
        IN  /\ \A j, k \in DOMAIN primary : primary[j] = primary[k] => j = k
            /\ Range(primary) \subseteq extracted
            /\ req[w].pc = "sleep" => Range(primary) = extracted

\* the fetch has returned for a record that names one condition twice
C20_DuplicateFetchedOnce ==
    \E w \in Fetching :
        LET extracted == ExtractedTable[req[w].patient_info_text]
        IN  /\ req[w].pc = "sleep"
            /\ Len(extracted) > Cardinality(Range(extracted))
            /\ PrimaryConditions(req[w].queries) # <<>>

\* C25: a call of _perform_search makes at most four requests and no query
\* is made twice, so that a condition gets at most eight requests; and a
\* plan request that is in fetch_and_save_papers leaves it, with the list
\* it returns or with the exception that the handling of a response raised.
C25_FetchTerminates ==
    /\ [](\A w \in Fetching :
             /\ req[w].pc = "search" => req[w].attempt < MaxAttempts
             /\ \A j, k \in DOMAIN req[w].queries :
                    req[w].queries[j] = req[w].queries[k] => j = k
             /\ \A k \in DOMAIN req[w].queries :
                    req[w].queries[k][2] \in {"primary", "fallback"})
    /\ \A w \in Workers : (req[w].pc = "search") ~> (req[w].pc # "search")

\* the fetch has returned after the primary and the fallback query of
\* every condition failed four times
C25_ReturnedAfterAllFailed ==
    \E w \in Fetching :
        /\ req[w].pc = "sleep"
        /\ req[w].exhausted = DOMAIN req[w].unique_conditions
        /\ Len(req[w].unique_conditions) > 1
        /\ Len(req[w].queries) = 2 * Len(req[w].unique_conditions)

----
\* Properties of cleanup_papers (SpecCleanup).

\* C11: cleanup_papers raises nothing and goes through its whole list: a
\* step of it either goes from the existence check of a location to its
\* removal, or on to the next location, or returns after the last one,
\* whether the file was there, was gone, or could not be removed.
C11_CleanupGoesOn ==
    [][\A w \in Workers :
          LET r == req[w]
              r2 == req'[w]
          IN  (r.kind = "plan" /\ r.pc \in {"cleanup_exists", "cleanup_remove"}
                  /\ r2 # r)
                 => /\ r2.error_message # "cleanup raised"
                    /\ \/ /\ r.pc = "cleanup_exists"
                          /\ r2.pc = "cleanup_remove"
                          /\ r2.cleaned = r.cleaned
                       \/ /\ r2.pc = "cleanup_exists"
                          /\ r2.cleaned = r.cleaned + 1
                          /\ r2.created_files = r.created_files
                       \/ /\ r2.pc = "done"
                          /\ r.cleaned = Len(r.created_files)]_vars

\* cleanup_papers could not remove its first file, found its second one,
\* and another request removed that one before the removal
C11_DeniedThenGone ==
    \E w \in PlanRequests :
        /\ req[w].pc = "cleanup_remove"
        /\ req[w].cleaned = 2
        /\ req[w].created_files[1] # req[w].created_files[2]
        /\ exists(req[w].created_files[1])
        /\ ~exists(req[w].created_files[2])

----
\* Properties of parse_treatment_plan (SpecParse).

ParseReturned == call.fn = "parse_treatment_plan" /\ call.pc = "returned"

\* C12: parse_treatment_plan returns a plan, a list, for every string and
\* raises nothing.
C12_ParseIsTotal ==
    ParseReturned => call.result.t = "list"

\* C13: every entry of a plan that parse_treatment_plan returns is a record
\* with a condition that is not empty after trimming and with at least one
\* detail that is not empty.
C13_EntriesComplete ==
    (ParseReturned /\ call.result.t = "list")
        => \A i \in DOMAIN call.result.v :
               LET e == call.result.v[i]
                   condition == DictGet(e, KeyCondition, None)
                   details == DictGet(e, KeyDetails, None)
               IN  /\ e.t = "dict"
                   /\ condition.t = "str"
                   /\ Strip(condition.v) # <<>>
                   /\ details.t \in {"list", "tuple"}
                   /\ \E j \in DOMAIN details.v :
                          details.v[j].t = "str" /\ Strip(details.v[j].v) # <<>>

\* C14: the plan parsed from the markdown written for a plan that came from
\* a literal is that plan: the same entries in the same order, each with
\* the same condition and the same details.
C14_RoundTrip ==
    (ParseReturned /\ call.origin # None) => call.result = call.origin

\* whether parse_treatment_plan takes the text as markdown
C21_MarkdownPath(plan_text) ==
    /\ ~Contains(plan_text, NoPlanMarker)
    /\ ~Contains(plan_text, FailedMarker)
    /\ ast_literal_eval(plan_text).t # "TypeError"
    /\ ~LiteralPath(plan_text)

\* the heading of the k-th heading/body pair of the segments, without its
\* colons, and the details of its body
C21_Heading(parts, k) == Replace(Strip(parts[2 * k]), <<":">>, <<>>)
C21_Details(parts, k) ==
    NonEmptyStripped(Split(Strip(parts[2 * k + 1]), <<"*">>))

\* the pairs that are complete and whose heading is neither empty nor a
\* preamble
C21_Kept(parts) ==
    {k \in 1..((Len(parts) - 1) \div 2) :
        /\ C21_Heading(parts, k) # <<>>
        /\ ~Contains(C21_Heading(parts, k), Preamble)
        /\ C21_Details(parts, k) # <<>>}

\* C21: the plan parsed from markdown has one entry for every complete
\* heading/body pair whose heading is neither empty nor holds the preamble
\* phrase, in the order of the pairs, and no other entry; the response of
\* the scenario parses to the single entry of Hypertension.
C21_PreambleSkipped ==
    (ParseReturned /\ C21_MarkdownPath(call.arg))
        => LET parts == Split(call.arg, <<"*", "*">>)
               kept == C21_Kept(parts)
           IN  /\ call.result.t = "list"
               /\ Len(call.result.v) = Cardinality(kept)
               /\ \A j \in DOMAIN call.result.v :
                      LET k == CHOOSE x \in kept :
                                   Cardinality({y \in kept : y <= x}) = j
                      IN  call.result.v[j] =
                              Entry(C21_Heading(parts, k),
                                    PyList(C21_Details(parts, k)))
               /\ call.arg = ScenarioAnswer
                      => call.result = PyList(<<Entry(
                             <<"H","y","p","e","r","t","e","n","s","i","o","n">>,
                             PyList(<<PyStr(<<"R","e","d","u","c","e"," ","s","o","d","i","u","m">>),
                                      PyStr(<<"M","o","n","i","t","o","r"," ","B","P">>)>>))>>)

\* the preamble between two sections was skipped and both sections parsed
C21_SectionsAroundPreamble ==
    /\ ParseReturned
    /\ call.arg = PreambleBetween
    /\ call.result = PyList(<<Entry(Flu, PyList(<<PyStr(Rest)>>)),
                              Entry(<<"G","o","u","t">>,
                                    PyList(<<PyStr(<<"I","c","e">>)>>))>>)

----
\* Properties of extract_conditions (SpecExtract).

\* whether a line starts with a section label: a capitalized word and ":"
C15_LabelAtStart(line) ==
    /\ line # <<>>
    /\ line[1] \in Upper
    /\ LET j == LowerRunEnd(line, 2)
       IN  j > 2 /\ j <= Len(line) /\ line[j] = ":"

RECURSIVE C15_Fragments(_)
C15_Fragments(lines) ==
    IF lines = <<>> THEN <<>>
    ELSE SplitChars(Head(lines), {";"}) \o C15_Fragments(Tail(lines))

\* the conditions of a record: the fragments with the marker between the
\* first line that starts with "Conditions:" and the next line that starts
\* with a section label, cleaned, in their order
C15_Expected(text) ==
    LET lines == Split(text, <<"\n">>)
        starts == {k \in DOMAIN lines : StartsWith(lines[k], ConditionsLabel)}
    IN  IF starts = {} THEN <<>>
        ELSE LET k == CHOOSE x \in starts : \A y \in starts : x <= y
                 labels == {j \in DOMAIN lines : j > k /\ C15_LabelAtStart(lines[j])}
                 e == IF labels = {} THEN Len(lines) + 1
                      ELSE CHOOSE x \in labels : \A y \in labels : x <= y
                 first == SubSeq(lines[k], Len(ConditionsLabel) + 1, Len(lines[k]))
             IN  CollectConditions(
                     C15_Fragments(<<first>> \o SubSeq(lines, k + 1, e - 1)))

\* C15: extract_conditions returns the cleaned fragments that carry the
\* (disorder) marker and lie between the "Conditions:" label and the next
\* section label or the end of the text, in their order, duplicates kept,
\* and nothing that lies after the next section label.
C15_ExtractsTheBlock ==
    (call.fn = "extract_conditions" /\ call.pc = "returned")
        => call.result = C15_Expected(call.arg)

----
\* Properties of _perform_search (SpecSearch).

RateLimited == [status |-> 429, data |-> <<>>]

\* whether the first k responses of the call were 429
C17_FirstRateLimited(k) ==
    /\ k <= Len(call.responses)
    /\ \A i \in 1..k : call.responses[i].status = 429

\* C17: after k responses 429 and then a 200 response, the call has made
\* k + 1 requests, has slept 1, 2, ..., 2^(k-1) seconds in this order, and
\* has returned the files of the 200 response; after four responses 429 it
\* has returned nothing, and no call makes a fifth request.
C17_BackoffSchedule ==
    call.fn = "_perform_search"
        => /\ call.requests = Len(call.responses)
           /\ call.requests <= 4
           /\ call.requests = 4 => call.pc # "request"
           /\ C17_FirstRateLimited(4) => call.pc = "returned" /\ call.found = <<>>
           /\ \A k \in 0..3 :
                  (/\ C17_FirstRateLimited(k)
                   /\ Len(call.responses) > k
                   /\ call.responses[k + 1].status = 200
                   /\ call.pc # "raised")
                      => /\ call.pc = "returned"
                         /\ call.requests = k + 1
                         /\ call.delays = [i \in 1..k |-> Pow2(i - 1)]
                         /\ call.found =
                                SavePapers(call.responses[k + 1].data, 1, <<>>, fs).found
                         /\ \A i \in DOMAIN call.found : exists(call.found[i])

\* three responses 429, then a paper: the call returned its file
C17_ThreeRetriesThenFound ==
    /\ call.fn = "_perform_search"
    /\ call.pc = "returned"
    /\ C17_FirstRateLimited(3)
    /\ call.requests = 4
    /\ call.delays = <<1, 2, 4>>
    /\ call.found # <<>>

\* the call after n responses 429
RECURSIVE C18_AfterRateLimits(_)
C18_AfterRateLimits(n) ==
    IF n = 0 THEN NewSearch
    ELSE SearchStep(C18_AfterRateLimits(n - 1), RateLimited, fs).call

\* C18: a call whose attempts have all failed has made the requests, slept
\* the delays and come to the result of the call whose attempts, as many,
\* were all answered 429.
C18_SameScheduleForAllFailures ==
    (/\ call.fn = "_perform_search"
     /\ \A i \in DOMAIN call.responses : call.responses[i].status # 200)
        => LET c == C18_AfterRateLimits(Len(call.responses))
           IN  /\ call.requests = c.requests
               /\ call.delays = c.delays
               /\ call.pc = c.pc
               /\ call.found = c.found

====
